---- MODULE Spec2Model ----
(***************************************************************************)
(* Cars EDA dashboard (src/app.py): a Streamlit script that loads two      *)
(* tables once and is re-run top to bottom on every user interaction.      *)
(* A run picks one page handler; the Analysis handler filters the cleaned  *)
(* table, classifies its columns and draws three chart sections; the       *)
(* Conclusion handler reports four automated insights.                     *)
(*                                                                         *)
(* Tables are records [cols, dtype, rows]: cols is the column order, dtype *)
(* the pandas dtype class read_csv inferred for each column ("number",     *)
(* "object" or "bool"), rows a sequence of functions column -> value.      *)
(* Numbers are integers; a statistic is [nan |-> BOOLEAN, v |-> Int] so    *)
(* that pandas' NaN is a value of its own.  Arithmetic is exact (floating  *)
(* point rounding error is not modelled).                                  *)
(***************************************************************************)
EXTENDS Integers, Sequences, FiniteSets, TLC

VARIABLES
    raw,       \* table returned by load_raw()
    clean,     \* table returned by load_cleaned()
    page,      \* value of the sidebar radio in the current run
    pc,        \* position of the current run of the script
    todo,      \* page handlers the dispatch selected that have not run yet
    ran,       \* page handlers that have run in the current run
    company,   \* Analysis local: multiselect value        (<<>> = not created)
    year,      \* Analysis local: slider value <<lo, hi>>  (<<>> = not created)
    df,        \* Analysis local: filtered subset          (<<>> = not created)
    num_cols,  \* Analysis local: numeric column list      (<<>> = not created)
    cat_cols,  \* Analysis local: object column list       (<<>> = not created)
    widgets,   \* values the current section read from its widgets
    out,       \* elements the current section put on the page, in order
    notes,     \* st.info / st.warning messages of the current run
    err        \* uncaught exception that stopped the current run, or "none"

vars == <<raw, clean, page, pc, todo, ran, company, year, df, num_cols,
          cat_cols, widgets, out, notes, err>>

----------------------------------------------------------------------------
(* Bounds and input sets *)

MaxRows == 2

IntroPage == "Introduction"
AnalysisPage == "Analysis"
ConclusionPage == "Conclusions"
Pages == {IntroPage, AnalysisPage, ConclusionPage}
Handlers == {"Introduction", "Analysis", "Conclusion"}

Col(name, dtype) == [name |-> name, dtype |-> dtype]

BaseSchema ==
    << Col("Company_Name", "object"), Col("Year", "number"),
       Col("Price", "number"), Col("Kilometers_Driven", "number"),
       Col("Power_value", "number"), Col("Fuel_Type", "object"),
       Col("Transmission", "object"), Col("First_Owner", "bool") >>

\* A layout that carries the coordinates the Introduction page maps.
GeoSchema ==
    << Col("Company_Name", "object"), Col("Year", "number"),
       Col("Price", "number"), Col("Kilometers_Driven", "number"),
       Col("Power_value", "number"), Col("Fuel_Type", "object"),
       Col("Latitude", "number"), Col("Longitude", "number") >>

Without(schema, k) == [i \in 1..(Len(schema) - 1) |-> IF i < k THEN schema[i] ELSE schema[i + 1]]

\* Column layouts of Cars_cleaned.csv the model loads: the full layout, a
\* layout with coordinates, and the full layout with any one column missing.
Schemas == {BaseSchema, GeoSchema} \cup {Without(BaseSchema, k) : k \in 1..Len(BaseSchema)}

\* Rows the loaded tables are built from.  Numeric values stay within a spread
\* of 2 per column so that Round3 below stays inside TLC's 32-bit integers.
RowPool ==
    { [Company_Name |-> "Audi", Year |-> 2015, Price |-> 10, Kilometers_Driven |-> 31,
       Power_value |-> 100, Fuel_Type |-> "Petrol", Transmission |-> "Manual",
       First_Owner |-> TRUE, Latitude |-> 19, Longitude |-> 72],
      [Company_Name |-> "BMW", Year |-> 2017, Price |-> 12, Kilometers_Driven |-> 30,
       Power_value |-> 102, Fuel_Type |-> "Diesel", Transmission |-> "Automatic",
       First_Owner |-> FALSE, Latitude |-> 20, Longitude |-> 74],
      [Company_Name |-> "Audi", Year |-> 2016, Price |-> 10, Kilometers_Driven |-> 32,
       Power_value |-> 101, Fuel_Type |-> "Diesel", Transmission |-> "Manual",
       First_Owner |-> TRUE, Latitude |-> 19, Longitude |-> 73] }

BoundedSeq(S, n) == UNION {[1..k -> S] : k \in 0..n}

ColNames(schema) == [i \in 1..Len(schema) |-> schema[i].name]
Range(s) == {s[i] : i \in 1..Len(s)}

MkTable(schema, rows) ==
    [cols  |-> ColNames(schema),
     dtype |-> [c \in Range(ColNames(schema)) |->
                  schema[CHOOSE i \in 1..Len(schema) : schema[i].name = c].dtype],
     rows  |-> [i \in 1..Len(rows) |-> [c \in Range(ColNames(schema)) |-> rows[i][c]]]]

Tables(schemas) == {MkTable(s, rows) : s \in schemas, rows \in BoundedSeq(RowPool, MaxRows)}

\* Cars.csv is an independent artifact that the dashboard only displays.
RawTables == {MkTable(<< Col("Name", "object"), Col("Price", "object") >>,
                      << [Name |-> "Audi A4", Price |-> "10 Lakh"] >>)}

----------------------------------------------------------------------------
(* pandas / Python primitives the script calls *)

NaN == [nan |-> TRUE, v |-> 0]
Num(v) == [nan |-> FALSE, v |-> v]

HasCol(t, c) == c \in Range(t.cols)
Column(t, c) == [i \in 1..Len(t.rows) |-> t.rows[i][c]]

RECURSIVE SumSeq(_)
SumSeq(xs) == IF xs = << >> THEN 0 ELSE xs[1] + SumSeq(Tail(xs))

\* Mean with the empty column reported as 0 instead of NaN.
Mean_ZeroOnEmpty(xs) ==
    IF Len(xs) = 0 THEN [nan |-> FALSE, num |-> 0, den |-> 1]
    ELSE [nan |-> FALSE, num |-> SumSeq(xs), den |-> Len(xs)]

\* Series.mean(): NaN on an empty column, else the exact quotient num/den.
Mean(xs) == IF Len(xs) = 0 THEN [nan |-> TRUE, num |-> 0, den |-> 1]
            ELSE [nan |-> FALSE, num |-> SumSeq(xs), den |-> Len(xs)]

\* Nearest integer to a/b (b > 0), halves to the even neighbour, as round() does.
RoundHalfEven(a, b) ==
    LET q == a \div b
        r == a % b
    IN  IF 2 * r > b THEN q + 1
        ELSE IF 2 * r < b THEN q
        ELSE IF q % 2 = 0 THEN q ELSE q + 1

\* round(m, 2): NaN stays NaN; the result is counted in hundredths.
Round2(m) == IF m.nan THEN NaN ELSE Num(RoundHalfEven(100 * m.num, m.den))

\* int(m) truncates toward zero (columns are non-negative here); int(NaN) raises.
IntOf(m) == Num(m.num \div m.den)

\* Series.unique() / nunique(): distinct values.
Unique(xs) == Range(xs)

----------------------------------------------------------------------------
(* Page elements and the statement-by-statement execution of a handler *)

Metric(label, value) == [kind |-> "metric", label |-> label, value |-> value]
Write(label, value) == [kind |-> "write", label |-> label, value |-> value]
WriteText(label, text) == [kind |-> "write_text", label |-> label, text |-> text]
Dataframe(t) == [kind |-> "dataframe", table |-> t]
MapOf(cols) == [kind |-> "map", columns |-> cols]

Emit(elems) == [err |-> "none", out |-> elems, notes |-> {}]
Raise(e) == [err |-> e, out |-> << >>, notes |-> {}]
Note(msg) == [err |-> "none", out |-> << >>, notes |-> {msg}]

\* Python runs the statements in order and stops at the first that raises.
RECURSIVE RunStmts(_)
RunStmts(stmts) ==
    IF stmts = << >> THEN Emit(<< >>)
    ELSE IF stmts[1].err # "none" THEN stmts[1]
    ELSE LET rest == RunStmts(Tail(stmts))
         IN  [err   |-> rest.err,
              out   |-> stmts[1].out \o rest.out,
              notes |-> stmts[1].notes \cup rest.notes]

Some(v) == << v >>
Unset == << >>
NoWidgets == [section |-> "none"]

----------------------------------------------------------------------------
(* Script start and page dispatch *)

\* Dispatch with the second test written as a fresh "if": its else branch
\* then also runs after the Introduction page.
Dispatch_NoElif(p) ==
    IF p = IntroPage THEN {"Introduction", "Conclusion"}
    ELSE IF p = AnalysisPage THEN {"Analysis"}
    ELSE {"Conclusion"}

\* if page == Introduction ... elif page == Analysis ... else ...
Dispatch(p) ==
    IF p = IntroPage THEN {"Introduction"}
    ELSE IF p = AnalysisPage THEN {"Analysis"}
    ELSE {"Conclusion"}

RunEnded == pc = "stopped" \/ (pc = "dispatch" /\ todo = {})

\* State after the loads and the radio of a first run showing page p.
InitWith(tables, p) ==
    /\ raw \in RawTables
    /\ clean \in tables
    /\ page = p
    /\ pc = "dispatch"
    /\ todo = Dispatch(p)
    /\ ran = {}
    /\ company = Unset /\ year = Unset /\ df = Unset
    /\ num_cols = Unset /\ cat_cols = Unset
    /\ widgets = NoWidgets
    /\ out = << >>
    /\ notes = {}
    /\ err = "none"

\* The radio's default is its first option.
Init == InitWith(Tables(Schemas), IntroPage)

\* A user interaction re-runs the script from the top: the cached loads return
\* the same tables, every local starts afresh, the radio yields p.
Rerun(p) ==
    /\ RunEnded
    /\ page' = p
    /\ pc' = "dispatch"
    /\ todo' = Dispatch(p)
    /\ ran' = {}
    /\ company' = Unset /\ year' = Unset /\ df' = Unset
    /\ num_cols' = Unset /\ cat_cols' = Unset
    /\ widgets' = NoWidgets
    /\ out' = << >>
    /\ notes' = {}
    /\ err' = "none"
    /\ UNCHANGED <<raw, clean>>

\* Where a handler leaves the run: stopped by an exception, or back at the
\* dispatch chain with itself done.
HandlerEnds(h, res) ==
    /\ pc' = IF res.err = "none" THEN "dispatch" ELSE "stopped"
    /\ todo' = todo \ {h}
    /\ ran' = ran \cup {h}
    /\ out' = res.out
    /\ notes' = notes \cup res.notes
    /\ err' = res.err

IntroductionBody(r, c) ==
    RunStmts(<<
        Emit(<< Metric("Total Cars", Num(Len(c.rows))) >>),
        IF ~HasCol(c, "Price") THEN Raise("KeyError")
        ELSE Emit(<< Metric("Average Price", Round2(Mean(Column(c, "Price")))) >>),
        IF ~HasCol(c, "Kilometers_Driven") THEN Raise("KeyError")
        ELSE IF Mean(Column(c, "Kilometers_Driven")).nan THEN Raise("ValueError")
        ELSE Emit(<< Metric("Average KM", IntOf(Mean(Column(c, "Kilometers_Driven")))) >>),
        IF ~HasCol(c, "Company_Name") THEN Raise("KeyError")
        ELSE Emit(<< Metric("Total Companies",
                            Num(Cardinality(Unique(Column(c, "Company_Name"))))) >>),
        Emit(<< Dataframe(r), Dataframe(c) >>),
        IF HasCol(c, "Latitude") /\ HasCol(c, "Longitude")
        THEN Emit(<< MapOf(<< "Latitude", "Longitude" >>) >>)
        ELSE Note("Latitude and Longitude not available")
    >>)

Introduction ==
    /\ pc = "dispatch" /\ "Introduction" \in todo
    /\ HandlerEnds("Introduction", IntroductionBody(raw, clean))
    /\ UNCHANGED <<raw, clean, page, company, year, df, num_cols, cat_cols, widgets>>

----------------------------------------------------------------------------
(* Analysis page, lines 78-107: sidebar filter, classification, metrics *)

MinOf(S) == CHOOSE m \in S : \A v \in S : m <= v
MaxOf(S) == CHOOSE m \in S : \A v \in S : v <= m

\* Ranges the slider over [lo, hi] can return: lo <= a <= b <= hi.
SliderRanges(lo, hi) == {r \in (lo..hi) \X (lo..hi) : r[1] <= r[2]}

\* The two masks joined with "|" instead of "&".
FilterRows_Or(t, allowed, lo, hi) ==
    [cols  |-> t.cols,
     dtype |-> t.dtype,
     rows  |-> SelectSeq(t.rows, LAMBDA r : \/ r["Company_Name"] \in allowed
                                             \/ (lo <= r["Year"] /\ r["Year"] <= hi))]

\* between() with the upper bound excluded.
FilterRows_ExclusiveUpper(t, allowed, lo, hi) ==
    [cols  |-> t.cols,
     dtype |-> t.dtype,
     rows  |-> SelectSeq(t.rows, LAMBDA r : /\ r["Company_Name"] \in allowed
                                             /\ lo <= r["Year"]
                                             /\ r["Year"] < hi)]

\* clean[isin(company) & between(year[0], year[1])]
FilterRows(t, allowed, lo, hi) ==
    [cols  |-> t.cols,
     dtype |-> t.dtype,
     rows  |-> SelectSeq(t.rows, LAMBDA r : /\ r["Company_Name"] \in allowed
                                             /\ lo <= r["Year"]
                                             /\ r["Year"] <= hi)]

SelectCols(t, dtype) == SelectSeq(t.cols, LAMBDA c : t.dtype[c] = dtype)
\* select_dtypes(include=np.number): bool is not a sub-dtype of np.number.
NumCols(t) == SelectCols(t, "number")
\* select_dtypes(include="object")
CatCols(t) == SelectCols(t, "object")

MetricsBody(d) ==
    RunStmts(<<
        Emit(<< Metric("Selected Cars", Num(Len(d.rows))) >>),
        IF ~HasCol(d, "Price") THEN Raise("KeyError")
        ELSE Emit(<< Metric("Average Price", Round2(Mean(Column(d, "Price")))) >>),
        IF ~HasCol(d, "Power_value") THEN Raise("KeyError")
        ELSE Emit(<< Metric("Average Power", Round2(Mean(Column(d, "Power_value")))) >>)
    >>)

\* A section of the Analysis handler ends: on to the next one, or stopped.
SectionEnds(res, next) ==
    /\ pc' = IF res.err = "none" THEN next ELSE "stopped"
    /\ out' = res.out
    /\ notes' = notes \cup res.notes
    /\ err' = res.err

AnalysisFilter(sel, yr) ==
    /\ pc = "dispatch" /\ "Analysis" \in todo
    /\ todo' = todo \ {"Analysis"}
    /\ ran' = ran \cup {"Analysis"}
    /\ widgets' = [section |-> "filter"]
    /\ IF ~HasCol(clean, "Company_Name")
       THEN /\ SectionEnds(Raise("KeyError"), "univariate")
            /\ UNCHANGED <<company, year, df, num_cols, cat_cols>>
       ELSE /\ sel \subseteq Unique(Column(clean, "Company_Name"))
            /\ company' = Some(sel)
            /\ IF ~HasCol(clean, "Year") \/ Len(clean.rows) = 0
               THEN /\ SectionEnds(Raise(IF HasCol(clean, "Year")
                                         THEN "ValueError" ELSE "KeyError"),
                                   "univariate")
                    /\ UNCHANGED <<year, df, num_cols, cat_cols>>
               ELSE LET ys == Range(Column(clean, "Year"))
                        d  == FilterRows(clean, sel, yr[1], yr[2])
                    IN  /\ yr \in SliderRanges(MinOf(ys), MaxOf(ys))
                        /\ year' = Some(yr)
                        /\ df' = Some(d)
                        /\ num_cols' = Some(NumCols(d))
                        /\ cat_cols' = Some(CatCols(d))
                        /\ SectionEnds(MetricsBody(d), "univariate")
    /\ UNCHANGED <<raw, clean, page>>

----------------------------------------------------------------------------
(* Statistics of the chart sections and the Conclusion page *)

RECURSIVE SumProd(_, _)
SumProd(xs, ys) == IF xs = << >> THEN 0 ELSE xs[1] * ys[1] + SumProd(Tail(xs), Tail(ys))

\* Pearson r of two equally long columns as exact integers: r = c / sqrt(vx * vy)
\* with c = n*Sxy - Sx*Sy, vx = n*Sxx - Sx^2, vy = n*Syy - Sy^2.  r is NaN when
\* either column has no spread (which includes n = 0 and n = 1).
Pearson(xs, ys) ==
    LET n  == Len(xs)
        c  == n * SumProd(xs, ys) - SumSeq(xs) * SumSeq(ys)
        vx == n * SumProd(xs, xs) - SumSeq(xs) * SumSeq(xs)
        vy == n * SumProd(ys, ys) - SumSeq(ys) * SumSeq(ys)
    IN  [nan |-> (vx = 0 \/ vy = 0), c |-> c, vx |-> vx, vy |-> vy]

\* Largest k in lo..hi with (2k-1)^2 * d <= lhs, given that lo qualifies.
RECURSIVE NearestBelow(_, _, _, _)
NearestBelow(lo, hi, d, lhs) ==
    IF lo >= hi THEN lo
    ELSE LET mid == (lo + hi + 1) \div 2
         IN  IF (2 * mid - 1) * (2 * mid - 1) * d <= lhs
             THEN NearestBelow(mid, hi, d, lhs)
             ELSE NearestBelow(lo, mid - 1, d, lhs)

\* round(r, 3), counted in thousandths: the k nearest to 1000 * |c| / sqrt(d),
\* d = vx * vy, i.e. the largest k with (2k-1) * sqrt(d) <= 2000 * |c|; an exact
\* half goes to the even neighbour.
Round3(r) ==
    IF r.nan THEN NaN
    ELSE LET d   == r.vx * r.vy
             lhs == 4000000 * r.c * r.c
             k   == NearestBelow(0, 1000, d, lhs)
             km  == IF k > 0 /\ (2 * k - 1) * (2 * k - 1) * d = lhs /\ k % 2 = 1
                    THEN k - 1 ELSE k
         IN  Num(IF r.c < 0 THEN -km ELSE km)

\* Order of two coefficients, both finite: a.c / sqrt(a.vx * a.vy) against b's.
\* Used for one column of a correlation matrix, where a.vy = b.vy.
CorrLess(a, b) ==
    LET sa == a.c * a.c * b.vx
        sb == b.c * b.c * a.vx
    IN  IF a.c < 0 /\ b.c >= 0 THEN TRUE
        ELSE IF a.c >= 0 /\ b.c < 0 THEN FALSE
        ELSE IF a.c >= 0 THEN sa < sb
        ELSE sb < sa

----------------------------------------------------------------------------
(* Analysis page, lines 110-190: the three chart sections *)

None == "None"
Figure(chart, x, y, hue) ==
    [kind |-> "pyplot", chart |-> chart, x |-> x, y |-> y, hue |-> hue]
Grid(chart, cols) == [kind |-> "pyplot", chart |-> chart, columns |-> cols]

Dists == {"Histogram", "KDE", "Boxplot"}
Methods == {"Heatmap", "Pairplot", "Grouped Bar"}

UnivariateChart(col, dist, cats) ==
    IF col \in Range(cats) THEN Figure("countplot", None, col, None)
    ELSE IF dist = "Histogram" THEN Figure("histplot", col, None, None)
    ELSE IF dist = "KDE" THEN Figure("kdeplot", col, None, None)
    ELSE Figure("boxplot", col, None, None)

Univariate(col, dist) ==
    /\ pc = "univariate"
    /\ col \in Range(df[1].cols)
    /\ dist \in (IF col \in Range(cat_cols[1]) THEN {None} ELSE Dists)
    /\ widgets' = [section |-> "univariate", col |-> col, dist |-> dist]
    /\ SectionEnds(Emit(<< UnivariateChart(col, dist, cat_cols[1]) >>), "bivariate")
    /\ UNCHANGED <<raw, clean, page, todo, ran, company, year, df, num_cols, cat_cols>>

BivariateBody(d, x, y, nums, cats) ==
    IF x \in Range(nums) /\ y \in Range(nums)
    THEN Emit(<< Write("Correlation", Round3(Pearson(Column(d, x), Column(d, y)))),
                 Figure("scatterplot", x, y, None) >>)
    ELSE IF x \in Range(nums) /\ y \in Range(cats)
    THEN Emit(<< Figure("boxplot", y, x, None) >>)
    ELSE IF x \in Range(cats) /\ y \in Range(nums)
    THEN Emit(<< Figure("boxplot", x, y, None) >>)
    ELSE Emit(<< Figure("countplot", x, None, y) >>)

Bivariate(x, y) ==
    /\ pc = "bivariate"
    /\ x \in Range(df[1].cols) /\ y \in Range(df[1].cols)
    /\ widgets' = [section |-> "bivariate", x |-> x, y |-> y]
    /\ SectionEnds(BivariateBody(df[1], x, y, num_cols[1], cat_cols[1]), "multivariate")
    /\ UNCHANGED <<raw, clean, page, todo, ran, company, year, df, num_cols, cat_cols>>

MultivariateBody(d, option, nums) ==
    IF option = "Heatmap" THEN Emit(<< Grid("heatmap", nums) >>)
    ELSE IF option = "Pairplot" THEN Emit(<< Grid("pairplot", nums) >>)
    ELSE IF HasCol(d, "Fuel_Type") /\ HasCol(d, "Price")
    THEN Emit(<< Figure("barplot", "Fuel_Type", "Price",
                        IF HasCol(d, "Transmission") THEN "Transmission" ELSE None) >>)
    ELSE Note("Required columns missing")

Multivariate(option) ==
    /\ pc = "multivariate"
    /\ widgets' = [section |-> "multivariate", option |-> option]
    /\ SectionEnds(MultivariateBody(df[1], option, num_cols[1]), "dispatch")
    /\ UNCHANGED <<raw, clean, page, todo, ran, company, year, df, num_cols, cat_cols>>

----------------------------------------------------------------------------
(* Conclusion page, lines 194-232 *)

\* Python orders strings by code point; over the fuel names that is this order.
FuelNames == << "CNG", "Diesel", "Petrol" >>
StrLess(a, b) ==
    (CHOOSE i \in 1..Len(FuelNames) : FuelNames[i] = a) <
    (CHOOSE i \in 1..Len(FuelNames) : FuelNames[i] = b)

Count(xs, v) == Cardinality({i \in 1..Len(xs) : xs[i] = v})

\* mode() with the values of maximal count left in order of first appearance.
ModeOf_FirstSeen(xs) ==
    LET modes == {v \in Range(xs) : \A w \in Range(xs) : Count(xs, w) <= Count(xs, v)}
        firstAt(v) == CHOOSE i \in 1..Len(xs) : xs[i] = v /\ \A j \in 1..(i - 1) : xs[j] # v
    IN  CHOOSE s \in [1..Cardinality(modes) -> modes] :
            /\ Range(s) = modes
            /\ \A i \in 1..(Len(s) - 1) : firstAt(s[i]) < firstAt(s[i + 1])

\* Series.mode(): the values of maximal count, returned sorted ascending.
ModeOf(xs) ==
    LET modes == {v \in Range(xs) : \A w \in Range(xs) : Count(xs, w) <= Count(xs, v)}
    IN  CHOOSE s \in [1..Cardinality(modes) -> modes] :
            /\ Range(s) = modes
            /\ \A i \in 1..(Len(s) - 1) : StrLess(s[i], s[i + 1])

\* Series.idxmax(): the first row holding the maximum.
IdxMax(xs) == CHOOSE i \in 1..Len(xs) :
                 /\ \A j \in 1..Len(xs) : xs[j] <= xs[i]
                 /\ \A j \in 1..(i - 1) : xs[j] < xs[i]

\* corr()["Price"]: every numeric column's coefficient with Price.
PriceCorr(t) == [c \in Range(NumCols(t)) |-> Pearson(Column(t, c), Column(t, "Price"))]

\* sort_values(ascending=False) of the labelled coefficients: the orders the
\* sort may return.  Finite values come first, largest first; NaNs come last
\* in their original order (na_position="last").  The default kind is
\* "quicksort", which is not stable, so equal finite values may come out in
\* either order.
SortValuesDesc(labels, coeff) ==
    {s \in [1..Len(labels) -> Range(labels)] :
        /\ Range(s) = Range(labels)
        /\ \A i \in 1..(Len(s) - 1) :
              \/ /\ ~coeff[s[i]].nan /\ ~coeff[s[i + 1]].nan
                 /\ ~CorrLess(coeff[s[i]], coeff[s[i + 1]])
              \/ /\ ~coeff[s[i]].nan /\ coeff[s[i + 1]].nan
              \/ /\ coeff[s[i]].nan /\ coeff[s[i + 1]].nan
                 /\ (CHOOSE k \in 1..Len(labels) : labels[k] = s[i]) <
                    (CHOOSE k \in 1..Len(labels) : labels[k] = s[i + 1])}

\* .index[1] of a sorted order: the second label.
StrongestWith(order) ==
    IF Len(order) < 2 THEN Raise("IndexError")
    ELSE Emit(<< WriteText("Strongest Correlation with Price", order[2]) >>)

ConclusionBody(c, order) ==
    RunStmts(<<
        Emit(<< Write("Total Records", Num(Len(c.rows))) >>),
        IF ~HasCol(c, "Price") THEN Raise("KeyError")
        ELSE IF Len(c.rows) = 0 THEN Raise("ValueError")
        ELSE IF ~HasCol(c, "Company_Name") THEN Raise("KeyError")
        ELSE Emit(<< WriteText("Highest Price Car",
                               c.rows[IdxMax(Column(c, "Price"))]["Company_Name"]) >>),
        IF ~HasCol(c, "Fuel_Type") THEN Raise("KeyError")
        ELSE IF Len(c.rows) = 0 THEN Raise("KeyError")
        ELSE Emit(<< WriteText("Most Common Fuel", ModeOf(Column(c, "Fuel_Type"))[1]) >>),
        StrongestWith(order),
        Note("Thanks for visiting")
    >>)

\* The orders the Conclusion page's sort can produce; one placeholder when the
\* run stops before it gets there.
PriceOrders(c) ==
    IF HasCol(c, "Price") THEN SortValuesDesc(NumCols(c), PriceCorr(c)) ELSE {<< >>}

Conclusion ==
    /\ pc = "dispatch" /\ "Conclusion" \in todo
    /\ \E order \in PriceOrders(clean) :
          HandlerEnds("Conclusion", ConclusionBody(clean, order))
    /\ UNCHANGED <<raw, clean, page, company, year, df, num_cols, cat_cols, widgets>>

----------------------------------------------------------------------------
(* The dashboard *)

AllColumns == Range(ColNames(BaseSchema)) \cup Range(ColNames(GeoSchema))
CompanyDomain == {r["Company_Name"] : r \in RowPool}
YearDomain == MinOf({r["Year"] : r \in RowPool})..MaxOf({r["Year"] : r \in RowPool})

Next ==
    \/ \E p \in Pages : Rerun(p)
    \/ Introduction
    \/ \E sel \in SUBSET CompanyDomain, yr \in YearDomain \X YearDomain : AnalysisFilter(sel, yr)
    \/ \E col \in AllColumns, dist \in Dists \cup {None} : Univariate(col, dist)
    \/ \E x \in AllColumns, y \in AllColumns : Bivariate(x, y)
    \/ \E option \in Methods : Multivariate(option)
    \/ Conclusion

Spec == Init /\ [][Next]_vars

----------------------------------------------------------------------------
(* The filter expression of lines 95-96 on its own, over every allowed set  *)
(* and every pair of bounds, including pairs no slider returns.             *)

ApplyFilter(allowed, lo, hi) ==
    /\ company' = Some(allowed)
    /\ year' = Some(<< lo, hi >>)
    /\ df' = Some(FilterRows(clean, allowed, lo, hi))
    /\ UNCHANGED <<raw, clean, page, pc, todo, ran, num_cols, cat_cols, widgets,
                   out, notes, err>>

InitFilter == InitWith(Tables({BaseSchema}), AnalysisPage)

NextFilter ==
    \E allowed \in SUBSET (CompanyDomain \cup {"Tesla"}),
       lo \in (MinOf(YearDomain) - 1)..(MaxOf(YearDomain) + 1),
       hi \in (MinOf(YearDomain) - 1)..(MaxOf(YearDomain) + 1) :
        ApplyFilter(allowed, lo, hi)

SpecFilter == InitFilter /\ [][NextFilter]_vars

----------------------------------------------------------------------------
(* The Conclusion page on its own, over tables that vary the fuel column    *)
(* (SpecMode) or the numeric columns and their order (SpecCorr).            *)

MaxFuelRows == 4
MaxCorrRows == 3

FuelSchema ==
    << Col("Company_Name", "object"), Col("Year", "number"), Col("Price", "number"),
       Col("Fuel_Type", "object") >>

FuelRows == {[Company_Name |-> "Audi", Year |-> 2015, Price |-> 10, Fuel_Type |-> f] :
               f \in Range(FuelNames)}

FuelTables == {MkTable(FuelSchema, rows) : rows \in BoundedSeq(FuelRows, MaxFuelRows)}

\* Every order of three numeric columns, between the two text columns.
CorrSchemas ==
    {<< Col("Company_Name", "object"), Col(o[1], "number"), Col(o[2], "number"),
        Col(o[3], "number"), Col("Fuel_Type", "object") >> :
        o \in {q \in [1..3 -> {"Year", "Price", "Power_value"}] :
                 Range(q) = {"Year", "Price", "Power_value"}}}

CorrRows == {[Company_Name |-> "Audi", Year |-> y, Price |-> p, Power_value |-> w,
              Fuel_Type |-> "Petrol"] :
               y \in {2015, 2016}, p \in {10, 11}, w \in {100, 101}}

CorrTables == {MkTable(s, rows) : s \in CorrSchemas, rows \in BoundedSeq(CorrRows, MaxCorrRows)}

NextConclusion == Rerun(ConclusionPage) \/ Conclusion

InitMode == InitWith(FuelTables, ConclusionPage)
InitCorr == InitWith(CorrTables, ConclusionPage)

SpecMode == InitMode /\ [][NextConclusion]_vars
SpecCorr == InitCorr /\ [][NextConclusion]_vars

----------------------------------------------------------------------------
(* Properties *)

\* Indices of the rows of the cleaned table that match the current selection.
Kept == {i \in 1..Len(clean.rows) :
           /\ clean.rows[i]["Company_Name"] \in company[1]
           /\ year[1][1] <= clean.rows[i]["Year"]
           /\ clean.rows[i]["Year"] <= year[1][2]}

\* C1: the filtered subset holds exactly the rows of the cleaned table whose
\* Company_Name is in the allowed set and whose Year lies in [lower, upper],
\* in table order, with the table's columns; so an empty allowed set and a
\* lower bound above the upper bound both give an empty subset, and no error.
C1_FilterExact ==
    (df # Unset /\ company # Unset /\ year # Unset) =>
        /\ df[1].cols = clean.cols
        /\ Len(df[1].rows) = Cardinality(Kept)
        /\ \A k \in 1..Len(df[1].rows) :
              df[1].rows[k] =
                clean.rows[CHOOSE i \in Kept : Cardinality({j \in Kept : j <= i}) = k]
        /\ (company[1] = {} => df[1].rows = << >>)
        /\ (year[1][1] > year[1][2] => df[1].rows = << >>)
        /\ err = "none"

\* A filter that keeps some rows and drops others.
C1_Witness ==
    /\ df # Unset /\ company # Unset /\ year # Unset
    /\ company[1] # {}
    /\ 0 < Len(df[1].rows) /\ Len(df[1].rows) < Len(clean.rows)

\* C2: the numeric list and the categorical list are disjoint, together hold
\* every column of the table, and each keeps the column order.
C2_Partition ==
    (num_cols # Unset /\ cat_cols # Unset) =>
        /\ Range(num_cols[1]) \cap Range(cat_cols[1]) = {}
        /\ Range(num_cols[1]) \cup Range(cat_cols[1]) = Range(df[1].cols)
        /\ num_cols[1] = SelectSeq(df[1].cols, LAMBDA c : c \in Range(num_cols[1]))
        /\ cat_cols[1] = SelectSeq(df[1].cols, LAMBDA c : c \in Range(cat_cols[1]))

\* C3: a reference to a column the table lacks never ends a run as an
\* uncaught error.
C3_AbsentColumnCaught == err # "KeyError"

Correlations(elems) ==
    SelectSeq(elems, LAMBDA e : e.kind = "write" /\ e.label = "Correlation")

MissingWarning == "Required columns missing"

\* C5: a run of the Analysis page with method Grouped Bar draws the bar chart
\* (x = Fuel_Type, y = Price, hue = Transmission when present) and warns
\* nothing when both columns exist; when either is absent it warns, draws no
\* chart, and the run is not stopped by the absent column before the warning.
C5_GroupedBar ==
    /\ (widgets.section = "multivariate" /\ widgets.option = "Grouped Bar") =>
          IF HasCol(clean, "Fuel_Type") /\ HasCol(clean, "Price")
          THEN /\ out = << Figure("barplot", "Fuel_Type", "Price",
                                  IF HasCol(clean, "Transmission")
                                  THEN "Transmission" ELSE None) >>
               /\ MissingWarning \notin notes
          ELSE /\ MissingWarning \in notes
               /\ out = << >>
    /\ ("Analysis" \in ran /\ ~(HasCol(clean, "Fuel_Type") /\ HasCol(clean, "Price")))
          => err # "KeyError"

\* The type class of a column: numeric, or categorical (text, boolean-like).
ClassOf(t, c) == IF t.dtype[c] = "number" THEN "numeric" ELSE "categorical"

\* C6: the bivariate section draws exactly one chart, fixed by the type
\* classes of X and Y: numeric x numeric -> scatter of X against Y with the
\* correlation written (and written in no other case); numeric x categorical,
\* either order -> boxplot, categorical on the grouping axis; categorical x
\* categorical -> countplot of X with hue Y; no column falls outside this.
C6_BivariateMapping ==
    (widgets.section = "bivariate") =>
        LET x  == widgets.x
            y  == widgets.y
            cx == ClassOf(df[1], x)
            cy == ClassOf(df[1], y)
            figs == SelectSeq(out, LAMBDA e : e.kind = "pyplot")
        IN  /\ Len(figs) = 1
            /\ figs[1] = (IF cx = "numeric" /\ cy = "numeric"
                          THEN Figure("scatterplot", x, y, None)
                          ELSE IF cx = "numeric" THEN Figure("boxplot", y, x, None)
                          ELSE IF cy = "numeric" THEN Figure("boxplot", x, y, None)
                          ELSE Figure("countplot", x, None, y))
            /\ (Len(Correlations(out)) = 1) <=> (cx = "numeric" /\ cy = "numeric")
            /\ Len(Correlations(out)) <= 1

\* C7: every run selects exactly one page handler, the one of the page
\* chosen; the filter controls, the subset and the classification exist only
\* in a run of the Analysis handler; a handler starts with no value left by
\* another handler.
C7_OneHandler ==
    /\ Cardinality(todo \cup ran) = 1
    /\ todo \cup ran = (IF page = IntroPage THEN {"Introduction"}
                        ELSE IF page = AnalysisPage THEN {"Analysis"}
                        ELSE {"Conclusion"})
    /\ RunEnded => Cardinality(ran) = 1
    /\ (company # Unset \/ year # Unset \/ df # Unset \/ num_cols # Unset \/ cat_cols # Unset)
          => (ran = {"Analysis"} /\ page = AnalysisPage)
    /\ (pc = "dispatch" /\ todo # {}) =>
          /\ ran = {}
          /\ company = Unset /\ year = Unset /\ df = Unset
          /\ num_cols = Unset /\ cat_cols = Unset
          /\ widgets = NoWidgets /\ out = << >> /\ notes = {}

\* A run of the Analysis handler that reached its last section.
C7_Witness ==
    /\ RunEnded /\ ran = {"Analysis"} /\ err = "none"
    /\ df # Unset /\ widgets.section = "multivariate"

\* C8: the column reported as most correlated with Price is never Price
\* itself; it is another numeric column, and no other non-Price column has a
\* larger coefficient (an undefined coefficient is larger than nothing).
C8_StrongestNotPrice ==
    \A i \in 1..Len(out) :
        (out[i].kind = "write_text" /\ out[i].label = "Strongest Correlation with Price") =>
            LET got    == out[i].text
                co     == PriceCorr(clean)
                others == Range(NumCols(clean)) \ {"Price"}
                Beats(a, b) == ~co[a].nan /\ (co[b].nan \/ CorrLess(co[b], co[a]))
            IN  /\ got # "Price"
                /\ got \in others
                /\ \A o \in others : ~Beats(o, got)

FirstIndex(xs, v) == CHOOSE i \in 1..Len(xs) : xs[i] = v /\ \A j \in 1..(i - 1) : xs[j] # v

\* The value the Conclusion page reported as most common fuel, if it did.
ReportedFuel ==
    SelectSeq(out, LAMBDA e : e.kind = "write_text" /\ e.label = "Most Common Fuel")

\* C9 as stated: the reported fuel has maximal count and, among the values of
\* maximal count, is the one that occurs first in the table.
C9_ModeFirstOccurrence ==
    \A i \in 1..Len(ReportedFuel) :
        LET xs  == Column(clean, "Fuel_Type")
            got == ReportedFuel[i].text
        IN  /\ got \in Range(xs)
            /\ \A w \in Range(xs) : Count(xs, w) <= Count(xs, got)
            /\ \A w \in Range(xs) :
                  Count(xs, w) = Count(xs, got) => FirstIndex(xs, got) <= FirstIndex(xs, w)

\* C9 amended: the reported fuel has maximal count and, among the values of
\* maximal count, is the smallest in sort order.
C9_ModeSmallest ==
    \A i \in 1..Len(ReportedFuel) :
        LET xs  == Column(clean, "Fuel_Type")
            got == ReportedFuel[i].text
        IN  /\ got \in Range(xs)
            /\ \A w \in Range(xs) : Count(xs, w) <= Count(xs, got)
            /\ \A w \in Range(xs) :
                  (Count(xs, w) = Count(xs, got) /\ w # got) => StrLess(got, w)

\* A tie in which the reported fuel is not the tied value seen first.
C9_Witness ==
    /\ Len(ReportedFuel) = 1
    /\ LET xs  == Column(clean, "Fuel_Type")
           got == ReportedFuel[1].text
       IN  \E w \in Range(xs) : /\ Count(xs, w) = Count(xs, got)
                                /\ FirstIndex(xs, w) < FirstIndex(xs, got)

\* C10: no step changes the raw or the cleaned table, and every subset is
\* cut from the whole cleaned table: whenever all manufacturers and the full
\* year range are selected, the subset is the cleaned table again.
C10_TablesImmutable ==
    /\ [][raw' = raw /\ clean' = clean]_vars
    /\ []((/\ df # Unset
           /\ company = Some(Unique(Column(clean, "Company_Name")))
           /\ year = Some(<< MinOf(Range(Column(clean, "Year"))),
                             MaxOf(Range(Column(clean, "Year"))) >>))
          => df[1] = clean)

\* The identity selection on a table of two rows that differ in both fields.
C10_Witness ==
    /\ df # Unset /\ Len(clean.rows) >= 2
    /\ company = Some(Unique(Column(clean, "Company_Name")))
    /\ Cardinality(company[1]) >= 2
    /\ year[1][1] < year[1][2]
    /\ year = Some(<< MinOf(Range(Column(clean, "Year"))),
                      MaxOf(Range(Column(clean, "Year"))) >>)
    /\ df[1] = clean

====
